---- MODULE Spec2Model ----
(***************************************************************************)
(* A model of fednode.py, the script that manages a Counterparty federated *)
(* node.  One run of the script is one invocation of main(); the           *)
(* configuration file and the source checkouts persist between runs.  A    *)
(* run is modelled step by step at the places where the script calls the   *)
(* outside world (port probes, git, docker-compose, docker), whose         *)
(* outcomes are chosen by the environment.                                 *)
(***************************************************************************)
EXTENDS Integers, Sequences, FiniteSets, TLC

(* ------------------------------ bounds --------------------------------- *)
\* longest list of service names given to `update`
MaxReq == 2
\* most host ports that are listening at the moment of an install
MaxBound == 2

(* ------------------------- module-level tables ------------------------- *)
REPOS_BASE == <<"counterparty-lib", "counterparty-cli">>
REPOS_COUNTERBLOCK == REPOS_BASE \o <<"counterblock">>
REPOS_FULL == REPOS_COUNTERBLOCK \o <<"counterwallet", "armory-utxsvr">>

HOST_PORTS_USED ==
    [base         |-> <<8332, 18332, 4000, 14000>>,
     counterblock |-> <<8332, 18332, 4000, 14000, 4100, 14100>>,
     full         |-> <<8332, 18332, 4000, 14000, 4100, 14100, 80, 443>>]

UPDATE_CHOICES == <<"counterparty", "counterparty-testnet", "counterblock",
                    "counterblock-testnet", "counterwallet", "armory-utxsvr",
                    "armory-utxsvr-testnet">>
REPARSE_CHOICES == <<"counterparty", "counterparty-testnet", "counterblock",
                     "counterblock-testnet">>

\* choices= of the install sub-parser
ConfigChoices == {"base", "counterblock", "full"}
BranchChoices == {"master", "develop"}

Range(s) == {s[i] : i \in 1..Len(s)}

\* the absent configuration file
NoConfig == [branch |-> "", config |-> ""]

(* ------------------------------- state --------------------------------- *)
VARIABLES
    cfg,                \* contents of .fednode.config, NoConfig when absent
    dirs,               \* checkout directories that exist under src/
    bound,              \* host ports with a listening socket during the run
    pc,                 \* position of the current run
    command,            \* args.command
    args,               \* the other parsed arguments
    config_existed,     \* main's local of that name
    build_config,       \* main's local of that name
    repo_branch,        \* main's local of that name
    release_tag,        \* os.environ['FEDNODE_RELEASE_TAG'], "" when unset
    ports_left,         \* rest of the port loop of install
    repos_left,         \* rest of the REPOS loop of install
    services_to_update, \* main's local of that name
    git_has_updated,    \* main's local of that name
    service,            \* loop variable of the update loop
    service_dirs,       \* rest of the service_dirs loop of update
    log,                \* external commands issued by this run, in order
    probed,             \* ports probed by this run, in order
    conflict_port,      \* port named in the preflight error message, 0 if none
    backend_failed,     \* some external command of this run returned non-zero
    exit_code           \* exit status of the run, -1 while it is running

loaded == <<config_existed, build_config, repo_branch, release_tag>>
installLocals == <<ports_left, repos_left, probed, conflict_port>>
updateLocals == <<services_to_update, git_has_updated, service, service_dirs>>
vars == <<cfg, dirs, bound, pc, command, args, config_existed, build_config,
          repo_branch, release_tag, ports_left, repos_left,
          services_to_update, git_has_updated, service, service_dirs, log,
          probed, conflict_port, backend_failed, exit_code>>

NoArgs == [config |-> "", branch |-> "", services |-> <<>>, service |-> "",
           no_restart |-> FALSE]

Init ==
    /\ cfg = NoConfig
    /\ dirs = {}
    /\ bound = {}
    /\ pc = "idle"
    /\ command = ""
    /\ args = NoArgs
    /\ config_existed = FALSE
    /\ build_config = ""
    /\ repo_branch = ""
    /\ release_tag = ""
    /\ ports_left = <<>>
    /\ repos_left = <<>>
    /\ services_to_update = <<>>
    /\ git_has_updated = <<>>
    /\ service = ""
    /\ service_dirs = <<>>
    /\ log = <<>>
    /\ probed = <<>>
    /\ conflict_port = 0
    /\ backend_failed = FALSE
    /\ exit_code = -1

(* ------------------------------ helpers -------------------------------- *)
\* os.path.exists(FEDNODE_CONFIG_PATH)
ConfigExists == cfg # NoConfig

\* docker_config_file for a build_config
docker_config_file(bc) == "docker-compose." \o bc \o ".yml"

\* is_port_open: a connect to the port on localhost succeeds
is_port_open_never(port) == FALSE
is_port_open(port) == port \in bound

\* "if config doesn't exist, only the 'install' command may be run"
MustInstallFirst_Never(existed, cmd) == FALSE
MustInstallFirst(existed, cmd) == ~existed /\ cmd # "install"

\* install finds that a configuration already exists
InstallRefused_Never(existed) == FALSE
InstallRefused(existed) == existed

\* REPOS of the install branch
ReposFor_Swapped(bc) ==
    IF bc = "base" THEN REPOS_BASE
    ELSE IF bc = "counterblock" THEN REPOS_FULL
    ELSE REPOS_COUNTERBLOCK

ReposFor(bc) ==
    IF bc = "base" THEN REPOS_BASE
    ELSE IF bc = "counterblock" THEN REPOS_COUNTERBLOCK
    ELSE REPOS_FULL

\* the assertion of run_compose_cmd, on the environment's release tag
TagAsserted(tag) == tag # ""

\* the docker-compose command line run_compose_cmd hands to os.system, with
\* the release tag the environment carries at that moment
ComposeCmd(docker_config_path, tag, cmd, svcs) ==
    [op |-> "compose", target |-> docker_config_path, cmd |-> cmd,
     svc |-> svcs, tag |-> tag]

\* a git command line (the URI and the sudo wrapper are left out); for the
\* branch query the last field is what the command printed
GitCmd(cmd, dir, branch) ==
    [op |-> "git", target |-> dir, cmd |-> cmd, svc |-> <<>>, tag |-> branch]

\* a docker command line
DockerCmd(cmd, what) ==
    [op |-> "docker", target |-> what, cmd |-> cmd, svc |-> <<>>, tag |-> ""]

\* the copy of the *.default configuration templates
CopyDefaults ==
    [op |-> "copy", target |-> "config", cmd |-> "copy2", svc |-> <<>>,
     tag |-> ""]

\* no run is in progress
Idle == pc = "idle"

\* the process ends with the given status
Exit(code) == pc' = "done" /\ exit_code' = code

ResetInstallLocals ==
    /\ ports_left' = <<>>
    /\ repos_left' = <<>>
    /\ probed' = <<>>
    /\ conflict_port' = 0

ResetUpdateLocals ==
    /\ services_to_update' = <<>>
    /\ git_has_updated' = <<>>
    /\ service' = ""
    /\ service_dirs' = <<>>

\* "load and read config": the locals and the environment set from the file
LoadConfig_NoExport(file) ==
    /\ build_config' = file.config
    /\ repo_branch' = file.branch
    /\ release_tag' = ""

LoadConfig(file) ==
    /\ build_config' = file.config
    /\ repo_branch' = file.branch
    /\ release_tag' = file.branch

\* sets of listening ports the environment may present to an install
AllPorts == Range(HOST_PORTS_USED.full)
BoundSets == {B \in SUBSET AllPorts : Cardinality(B) <= MaxBound}

\* verbs of the argument parser other than install and docker_clean
OtherVerbs == {"uninstall", "start", "stop", "restart", "reparse", "ps",
               "tail", "logs", "exec", "shell", "update", "rebuild"}

(* ------------------------------ the verbs ------------------------------ *)
\* any verb but install when the configuration file does not exist
NotInstalled(cmd) ==
    /\ Idle
    /\ MustInstallFirst(ConfigExists, cmd)
    /\ command' = cmd
    /\ args' = NoArgs
    /\ config_existed' = FALSE
    /\ Exit(1)
    /\ log' = <<>>
    /\ backend_failed' = FALSE
    /\ ResetInstallLocals
    /\ ResetUpdateLocals
    /\ build_config' = ""
    /\ repo_branch' = ""
    /\ release_tag' = ""
    /\ UNCHANGED <<cfg, dirs, bound>>

\* install <config> <branch>, up to the start of the port loop
Install_AlwaysWrites(config, branch, B) ==
    /\ Idle
    /\ bound' = B
    /\ command' = "install"
    /\ args' = [NoArgs EXCEPT !.config = config, !.branch = branch]
    /\ config_existed' = ConfigExists
    /\ cfg' = [branch |-> branch, config |-> config]
    /\ LoadConfig(cfg')
    /\ log' = <<>>
    /\ backend_failed' = FALSE
    /\ probed' = <<>>
    /\ conflict_port' = 0
    /\ repos_left' = <<>>
    /\ IF InstallRefused(ConfigExists)
       THEN /\ Exit(1)
            /\ ports_left' = <<>>
       ELSE /\ pc' = "ports"
            /\ exit_code' = -1
            /\ ports_left' = HOST_PORTS_USED[cfg'.config]
    /\ ResetUpdateLocals
    /\ UNCHANGED dirs

Install(config, branch, B) ==
    /\ Idle
    /\ bound' = B
    /\ command' = "install"
    /\ args' = [NoArgs EXCEPT !.config = config, !.branch = branch]
    /\ config_existed' = ConfigExists
    /\ cfg' = IF ~ConfigExists
              THEN [branch |-> branch, config |-> config]
              ELSE cfg
    /\ LoadConfig(cfg')
    /\ log' = <<>>
    /\ backend_failed' = FALSE
    /\ probed' = <<>>
    /\ conflict_port' = 0
    /\ repos_left' = <<>>
    /\ IF InstallRefused(ConfigExists)
       THEN /\ Exit(1)
            /\ ports_left' = <<>>
       ELSE /\ pc' = "ports"
            /\ exit_code' = -1
            /\ ports_left' = HOST_PORTS_USED[cfg'.config]
    /\ ResetUpdateLocals
    /\ UNCHANGED dirs

\* one iteration of the port loop of install
ProbePort ==
    /\ pc = "ports"
    /\ ports_left # <<>>
    /\ LET port == Head(ports_left) IN
       /\ probed' = Append(probed, port)
       /\ ports_left' = Tail(ports_left)
       /\ IF is_port_open(port)
          THEN /\ conflict_port' = port
               /\ Exit(1)
               /\ repos_left' = <<>>
          ELSE /\ conflict_port' = conflict_port
               /\ IF Tail(ports_left) = <<>>
                  THEN /\ pc' = "clone"
                       /\ repos_left' = ReposFor(build_config)
                  ELSE /\ pc' = "ports"
                       /\ repos_left' = <<>>
               /\ exit_code' = exit_code
    /\ UNCHANGED <<cfg, dirs, bound, command, args, loaded, updateLocals, log,
                   backend_failed>>

\* one iteration of the REPOS loop of install
CloneRepo_Always ==
    /\ pc = "clone"
    /\ repos_left # <<>>
    /\ LET repo == Head(repos_left) IN
       \E ok \in BOOLEAN :
          /\ log' = Append(log, GitCmd("clone", repo, repo_branch))
          /\ dirs' = IF ok THEN dirs \cup {repo} ELSE dirs
          /\ backend_failed' = (backend_failed \/ ~ok)
    /\ repos_left' = Tail(repos_left)
    /\ pc' = IF Tail(repos_left) = <<>> THEN "launch" ELSE "clone"
    /\ UNCHANGED <<cfg, bound, command, args, loaded, ports_left, probed,
                   conflict_port, updateLocals, exit_code>>

CloneRepo ==
    /\ pc = "clone"
    /\ repos_left # <<>>
    /\ LET repo == Head(repos_left) IN
       IF repo \notin dirs
       THEN \E ok \in BOOLEAN :
               /\ log' = Append(log, GitCmd("clone", repo, repo_branch))
               /\ dirs' = IF ok THEN dirs \cup {repo} ELSE dirs
               /\ backend_failed' = (backend_failed \/ ~ok)
       ELSE UNCHANGED <<log, dirs, backend_failed>>
    /\ repos_left' = Tail(repos_left)
    /\ pc' = IF Tail(repos_left) = <<>> THEN "launch" ELSE "clone"
    /\ UNCHANGED <<cfg, bound, command, args, loaded, ports_left, probed,
                   conflict_port, updateLocals, exit_code>>

\* the rest of install: pull the images, copy the templates, launch
Launch ==
    /\ pc = "launch"
    /\ IF ~TagAsserted(release_tag)
       THEN /\ Exit(1)
            /\ UNCHANGED <<log, backend_failed>>
       ELSE \E ok1, ok2 \in BOOLEAN :
               /\ log' = log \o
                     <<ComposeCmd(docker_config_file(build_config), release_tag,
                                  "pull --ignore-pull-failures", <<>>),
                       CopyDefaults,
                       ComposeCmd(docker_config_file(build_config), release_tag,
                                  "up -d", <<>>)>>
               /\ backend_failed' = (backend_failed \/ ~ok1 \/ ~ok2)
               /\ Exit(0)
    /\ UNCHANGED <<cfg, dirs, bound, command, args, loaded, installLocals,
                   updateLocals>>

\* the verbs that begin with the configuration file present: the file is
\* loaded and the run is at its elif branch
Begin(cmd, a) ==
    /\ Idle
    /\ ~MustInstallFirst(ConfigExists, cmd)
    /\ command' = cmd
    /\ args' = a
    /\ config_existed' = TRUE
    /\ LoadConfig(cfg)
    /\ ResetInstallLocals
    /\ UNCHANGED <<dirs, bound>>

\* a verb that is a fixed sequence of docker-compose commands: every call
\* asserts the release tag, and the run ends with status 0 after the last
ComposeRun(cmds) ==
    IF ~TagAsserted(cfg.branch)
    THEN /\ Exit(1)
         /\ log' = <<>>
         /\ backend_failed' = FALSE
    ELSE \E failed \in BOOLEAN :
            /\ log' = [i \in 1..Len(cmds) |->
                         ComposeCmd(docker_config_file(cfg.config), cfg.branch,
                                    cmds[i][1], cmds[i][2])]
            /\ backend_failed' = failed
            /\ Exit(0)

\* uninstall
Uninstall_RemoveIfDown ==
    /\ Begin("uninstall", NoArgs)
    /\ ComposeRun(<< <<"down", <<>> >> >>)
    /\ cfg' = IF TagAsserted(cfg.branch) /\ ~backend_failed' THEN NoConfig
              ELSE cfg
    /\ ResetUpdateLocals

Uninstall ==
    /\ Begin("uninstall", NoArgs)
    /\ ComposeRun(<< <<"down", <<>> >> >>)
    /\ cfg' = IF TagAsserted(cfg.branch) THEN NoConfig ELSE cfg
    /\ ResetUpdateLocals

\* service lists handed to start, stop, restart, tail, logs and rebuild
\* (the empty list stands for the default '')
ServiceLists == {<<>>, <<"counterparty">>, <<"counterblock", "bitcoin">>}
\* service names handed to exec and shell
ExecServices == {"counterparty", "bitcoin"}
\* verbs forwarded to docker-compose with the service list appended
ForwardVerbs == {"start", "stop", "restart", "tail", "logs"}

\* the docker-compose sub-command of a forwarded verb
ForwardCmd(cmd) ==
    IF cmd = "tail" THEN "logs -f --tail=50" ELSE cmd

\* start, stop, restart, tail, logs
Forward(cmd, services) ==
    /\ cmd \in ForwardVerbs
    /\ Begin(cmd, [NoArgs EXCEPT !.services = services])
    /\ ComposeRun(<< <<ForwardCmd(cmd), services>> >>)
    /\ ResetUpdateLocals
    /\ UNCHANGED cfg

\* ps
Ps ==
    /\ Begin("ps", NoArgs)
    /\ ComposeRun(<< <<"ps", <<>> >> >>)
    /\ ResetUpdateLocals
    /\ UNCHANGED cfg

\* the run command of reparse for a service
ReparseRun(svc) ==
    IF svc \in {"counterparty", "counterparty-testnet"}
    THEN << <<"run -e COMMAND=reparse", <<svc>> >> >>
    ELSE IF svc \in {"counterblock", "counterblock-testnet"}
    THEN << <<"run -e EXTRA_PARAMS=--reparse", <<svc>> >> >>
    ELSE <<>>

\* reparse <service>
Reparse(svc) ==
    /\ svc \in Range(REPARSE_CHOICES)
    /\ Begin("reparse", [NoArgs EXCEPT !.service = svc])
    /\ ComposeRun(<< <<"stop", <<svc>> >> >> \o ReparseRun(svc))
    /\ ResetUpdateLocals
    /\ UNCHANGED cfg

\* rebuild [services]
Rebuild(services) ==
    /\ Begin("rebuild", [NoArgs EXCEPT !.services = services])
    /\ ComposeRun(<< <<"pull --ignore-pull-failures", services>>,
                     <<"up -d --build --force-recreate --no-deps", services>> >>)
    /\ ResetUpdateLocals
    /\ UNCHANGED cfg

\* the container docker exec addresses
ContainerName(svc) == "federatednode_" \o svc \o "_1"

\* exec <service> <cmd>
Exec(svc) ==
    /\ Begin("exec", [NoArgs EXCEPT !.service = svc])
    /\ \E exec_ok \in BOOLEAN :
          /\ log' = <<DockerCmd("exec bash -c", ContainerName(svc))>>
          /\ backend_failed' = ~exec_ok
    /\ Exit(0)
    /\ ResetUpdateLocals
    /\ UNCHANGED cfg

\* shell <service>
Shell(svc) ==
    /\ Begin("shell", [NoArgs EXCEPT !.service = svc])
    /\ \E exec_ok, run_ok \in BOOLEAN :
          IF exec_ok
          THEN /\ log' = <<DockerCmd("exec bash", ContainerName(svc))>>
               /\ backend_failed' = FALSE
               /\ Exit(0)
          ELSE IF ~TagAsserted(cfg.branch)
          THEN /\ log' = <<DockerCmd("exec bash", ContainerName(svc))>>
               /\ backend_failed' = TRUE
               /\ Exit(1)
          ELSE /\ log' = <<DockerCmd("exec bash", ContainerName(svc)),
                           ComposeCmd(docker_config_file(cfg.config), cfg.branch,
                                      "run --no-deps --entrypoint bash", <<svc>>)>>
               /\ backend_failed' = TRUE
               /\ Exit(0)
    /\ ResetUpdateLocals
    /\ UNCHANGED cfg

\* outputs of `docker ps -a -q` and `docker images -q`, split at newlines
DockerLists == {<<"">>, <<"1a2b", "">>}

\* the docker rm / docker rmi loop: empty entries are skipped
RemoveAll(cmd, ids) ==
    LET kept == SelectSeq(ids, LAMBDA id : id # "")
    IN [i \in 1..Len(kept) |-> DockerCmd(cmd, kept[i])]

\* docker_clean, which runs before the configuration file is looked at
DockerClean(docker_containers, docker_images) ==
    /\ Idle
    /\ command' = "docker_clean"
    /\ args' = NoArgs
    /\ \E failed \in BOOLEAN :
          /\ log' = RemoveAll("rm", docker_containers)
                       \o RemoveAll("rmi", docker_images)
          /\ backend_failed' = (failed /\ log' # <<>>)
    /\ Exit(1)
    /\ config_existed' = FALSE
    /\ build_config' = ""
    /\ repo_branch' = ""
    /\ release_tag' = ""
    /\ ResetInstallLocals
    /\ ResetUpdateLocals
    /\ UNCHANGED <<cfg, dirs, bound>>

(* ------------------------------- update -------------------------------- *)
\* names an operator may hand to update: the updatable services, the blank
\* name, and a service that is not updatable
ReqNames == Range(UPDATE_CHOICES) \cup {"", "bitcoin"}
ReqLists == UNION {[1..n -> ReqNames] : n \in 0..MaxReq}
\* the request lists tried between the other verbs of the lifecycle
FewReqLists == {<<>>, <<"counterparty", "counterparty-testnet">>, <<"">>,
                <<"counterblock", "bitcoin">>}

\* what `git symbolic-ref --short -q HEAD` may print (stripped)
BranchResults == {"", "master"}

\* service.replace('-testnet', '') on the names above
ServiceBase_NoStrip(svc) == svc
ServiceBase(svc) ==
    CASE svc = "counterparty-testnet" -> "counterparty"
      [] svc = "counterblock-testnet" -> "counterblock"
      [] svc = "armory-utxsvr-testnet" -> "armory-utxsvr"
      [] OTHER -> svc

\* service_dirs of a repository family, as directories under src/
ServiceDirs_LibOnly(service_base) ==
    IF service_base = "counterparty"
    THEN <<"counterparty-lib">>
    ELSE <<service_base>>

ServiceDirs(service_base) ==
    IF service_base = "counterparty"
    THEN <<"counterparty-lib", "counterparty-cli">>
    ELSE <<service_base>>

\* the family of the popped service was pulled earlier in this run
AlreadyUpdated_Never(service_base, updated) == FALSE
AlreadyUpdated(service_base, updated) == service_base \in Range(updated)

\* the branch query printed nothing
BranchUnknown_Never(service_branch) == FALSE
BranchUnknown(service_branch) == service_branch = ""

\* the validation loop of update finds a name to reject
InvalidRequest(services) ==
    /\ services # <<"">>
    /\ \E i \in 1..Len(services) : services[i] \notin Range(UPDATE_CHOICES)

\* update [--no-restart] [services], up to the start of the while loop
Update(services, no_restart) ==
    /\ Begin("update", [NoArgs EXCEPT !.services = services,
                                      !.no_restart = no_restart])
    /\ log' = <<>>
    /\ backend_failed' = FALSE
    /\ git_has_updated' = <<>>
    /\ service' = ""
    /\ service_dirs' = <<>>
    /\ IF InvalidRequest(services)
       THEN /\ Exit(1)
            /\ services_to_update' = <<>>
       ELSE /\ services_to_update' =
                  IF Len(services) = 0 THEN UPDATE_CHOICES ELSE services
            /\ IF services_to_update' = <<>>
               THEN Exit(0)
               ELSE pc' = "update" /\ exit_code' = -1
    /\ UNCHANGED cfg

\* top of the while loop: pop the next service and decide whether its
\* repository family still has to be pulled
UpdatePop_NoPop ==
    /\ pc = "update"
    /\ services_to_update # <<>>
    /\ service' = Head(services_to_update)
    /\ services_to_update' = services_to_update
    /\ LET service_base == ServiceBase(service') IN
       IF ~AlreadyUpdated(service_base, git_has_updated)
       THEN /\ git_has_updated' = Append(git_has_updated, service_base)
            /\ service_dirs' = ServiceDirs(service_base)
            /\ pc' = "checkout"
       ELSE /\ git_has_updated' = git_has_updated
            /\ service_dirs' = <<>>
            /\ pc' = "restart"
    /\ UNCHANGED <<cfg, dirs, bound, command, args, loaded, installLocals,
                   log, backend_failed, exit_code>>

UpdatePop_Last ==
    /\ pc = "update"
    /\ services_to_update # <<>>
    /\ service' = services_to_update[Len(services_to_update)]
    /\ services_to_update' =
          SubSeq(services_to_update, 1, Len(services_to_update) - 1)
    /\ LET service_base == ServiceBase(service') IN
       IF ~AlreadyUpdated(service_base, git_has_updated)
       THEN /\ git_has_updated' = Append(git_has_updated, service_base)
            /\ service_dirs' = ServiceDirs(service_base)
            /\ pc' = "checkout"
       ELSE /\ git_has_updated' = git_has_updated
            /\ service_dirs' = <<>>
            /\ pc' = "restart"
    /\ UNCHANGED <<cfg, dirs, bound, command, args, loaded, installLocals,
                   log, backend_failed, exit_code>>

UpdatePop ==
    /\ pc = "update"
    /\ services_to_update # <<>>
    /\ service' = Head(services_to_update)
    /\ services_to_update' = Tail(services_to_update)
    /\ LET service_base == ServiceBase(service') IN
       IF ~AlreadyUpdated(service_base, git_has_updated)
       THEN /\ git_has_updated' = Append(git_has_updated, service_base)
            /\ service_dirs' = ServiceDirs(service_base)
            /\ pc' = "checkout"
       ELSE /\ git_has_updated' = git_has_updated
            /\ service_dirs' = <<>>
            /\ pc' = "restart"
    /\ UNCHANGED <<cfg, dirs, bound, command, args, loaded, installLocals,
                   log, backend_failed, exit_code>>

\* one iteration of the service_dirs loop: query the branch, then pull
UpdateCheckout ==
    /\ pc = "checkout"
    /\ service_dirs # <<>>
    /\ LET service_dir == Head(service_dirs) IN
       \E service_branch \in BranchResults, ok \in BOOLEAN :
          IF BranchUnknown(service_branch)
          THEN /\ log' = Append(log, GitCmd("symbolic-ref", service_dir,
                                            service_branch))
               /\ backend_failed' = backend_failed
               /\ Exit(1)
          ELSE /\ log' = log \o <<GitCmd("symbolic-ref", service_dir,
                                         service_branch),
                                  GitCmd("pull", service_dir, service_branch)>>
               /\ backend_failed' = (backend_failed \/ ~ok)
               /\ pc' = IF Tail(service_dirs) = <<>> THEN "restart"
                        ELSE "checkout"
               /\ exit_code' = exit_code
    /\ service_dirs' = Tail(service_dirs)
    /\ UNCHANGED <<cfg, dirs, bound, command, args, loaded, installLocals,
                   services_to_update, git_has_updated, service>>

\* bottom of the while loop: restart the container unless --no-restart,
\* then test the loop condition
UpdateRestart_Always ==
    /\ pc = "restart"
    /\ IF ~TagAsserted(release_tag)
       THEN /\ UNCHANGED <<log, backend_failed>>
            /\ Exit(1)
       ELSE \E ok \in BOOLEAN :
               /\ log' = Append(log, ComposeCmd(docker_config_file(build_config),
                                               release_tag, "restart",
                                               <<service>>))
               /\ backend_failed' = (backend_failed \/ ~ok)
               /\ IF services_to_update = <<>>
                  THEN Exit(0)
                  ELSE pc' = "update" /\ exit_code' = exit_code
    /\ UNCHANGED <<cfg, dirs, bound, command, args, loaded, installLocals,
                   services_to_update, git_has_updated, service, service_dirs>>

UpdateRestart ==
    /\ pc = "restart"
    /\ IF args.no_restart
       THEN /\ UNCHANGED <<log, backend_failed>>
            /\ IF services_to_update = <<>>
               THEN Exit(0)
               ELSE pc' = "update" /\ exit_code' = exit_code
       ELSE IF ~TagAsserted(release_tag)
       THEN /\ UNCHANGED <<log, backend_failed>>
            /\ Exit(1)
       ELSE \E ok \in BOOLEAN :
               /\ log' = Append(log, ComposeCmd(docker_config_file(build_config),
                                               release_tag, "restart",
                                               <<service>>))
               /\ backend_failed' = (backend_failed \/ ~ok)
               /\ IF services_to_update = <<>>
                  THEN Exit(0)
                  ELSE pc' = "update" /\ exit_code' = exit_code
    /\ UNCHANGED <<cfg, dirs, bound, command, args, loaded, installLocals,
                   services_to_update, git_has_updated, service, service_dirs>>

\* the process is gone: its locals, arguments and environment with it
ProcessExit ==
    /\ pc = "done"
    /\ pc' = "idle"
    /\ command' = ""
    /\ args' = NoArgs
    /\ bound' = {}
    /\ config_existed' = FALSE
    /\ build_config' = ""
    /\ repo_branch' = ""
    /\ release_tag' = ""
    /\ ResetInstallLocals
    /\ ResetUpdateLocals
    /\ log' = <<>>
    /\ backend_failed' = FALSE
    /\ exit_code' = -1
    /\ UNCHANGED <<cfg, dirs>>

(* --------------------------- the specifications ------------------------ *)
\* the steps inside a run
Steps ==
    \/ ProbePort
    \/ CloneRepo
    \/ Launch
    \/ UpdatePop
    \/ UpdateCheckout
    \/ UpdateRestart
    \/ ProcessExit

\* the lifecycle: every verb, in any order, one run after the other
Next ==
    \/ \E cmd \in OtherVerbs : NotInstalled(cmd)
    \/ \E config \in ConfigChoices, branch \in BranchChoices, B \in BoundSets :
          Install(config, branch, B)
    \/ Uninstall
    \/ \E cmd \in ForwardVerbs, services \in ServiceLists : Forward(cmd, services)
    \/ Ps
    \/ \E svc \in Range(REPARSE_CHOICES) : Reparse(svc)
    \/ \E services \in ServiceLists : Rebuild(services)
    \/ \E svc \in ExecServices : Exec(svc)
    \/ \E svc \in ExecServices : Shell(svc)
    \/ \E cs \in DockerLists, is \in DockerLists : DockerClean(cs, is)
    \/ \E services \in FewReqLists, no_restart \in BOOLEAN :
          Update(services, no_restart)
    \/ Steps

Spec == Init /\ [][Next]_vars

\* the configuration files install can leave behind
InstalledConfigs ==
    {[branch |-> b, config |-> c] : b \in BranchChoices, c \in ConfigChoices}

\* the update runs of an installed node, for every request list
SyncInit ==
    /\ cfg \in InstalledConfigs
    /\ dirs = Range(ReposFor(cfg.config))
    /\ bound = {}
    /\ pc = "idle"
    /\ command = ""
    /\ args = NoArgs
    /\ config_existed = FALSE
    /\ build_config = ""
    /\ repo_branch = ""
    /\ release_tag = ""
    /\ ports_left = <<>>
    /\ repos_left = <<>>
    /\ services_to_update = <<>>
    /\ git_has_updated = <<>>
    /\ service = ""
    /\ service_dirs = <<>>
    /\ log = <<>>
    /\ probed = <<>>
    /\ conflict_port = 0
    /\ backend_failed = FALSE
    /\ exit_code = -1

SyncNext ==
    \/ \E services \in ReqLists, no_restart \in BOOLEAN :
          Update(services, no_restart)
    \/ UpdatePop
    \/ UpdateCheckout
    \/ UpdateRestart
    \/ ProcessExit

SyncSpec == SyncInit /\ [][SyncNext]_vars

\* the same, with the script running on once it has started: every step of
\* the update loop that can be taken is taken
SyncFairSpec ==
    /\ SyncSpec
    /\ WF_vars(UpdatePop)
    /\ WF_vars(UpdateCheckout)
    /\ WF_vars(UpdateRestart)

(* ------------------------------ the claims ----------------------------- *)
\* the commands of the log with a given op and sub-command
Issued(op, cmd) == SelectSeq(log, LAMBDA c : c.op = op /\ c.cmd = cmd)

\* C1: when a configuration record exists, install (any profile, any
\* branch) ends at once with a non-zero status and without side effect: no
\* port probe, no clone, no compose call, no template copy, no new checkout
\* directory, and the record keeps its profile and branch.
C1_InstallOverRecordRefused ==
    [][(pc = "idle" /\ cfg # NoConfig /\ command' = "install")
        => /\ pc' = "done"
           /\ exit_code' # 0
           /\ exit_code' # -1
           /\ log' = <<>>
           /\ probed' = <<>>
           /\ cfg' = cfg
           /\ dirs' = dirs]_vars

C1_Witness ==
    /\ pc = "done"
    /\ command = "install"
    /\ config_existed
    /\ cfg # NoConfig
    /\ <<args.config, args.branch>> # <<cfg.config, cfg.branch>>

\* C2: when no configuration record exists, every verb other than install
\* and docker_clean ends at once with a non-zero status, issues no compose,
\* docker or git command, and leaves the record absent.
C2_VerbWithoutRecordRefused ==
    [][(pc = "idle" /\ cfg = NoConfig /\ command' \in OtherVerbs)
        => /\ pc' = "done"
           /\ exit_code' # 0
           /\ exit_code' # -1
           /\ log' = <<>>
           /\ cfg' = NoConfig]_vars

C2_Witness ==
    /\ pc = "done"
    /\ command = "update"
    /\ ~config_existed
    /\ cfg = NoConfig
    /\ exit_code = 1

\* C3: an install that fails the port preflight leaves no configuration
\* record behind.
C3_PreflightFailureLeavesNoRecord ==
    (pc = "done" /\ command = "install" /\ ~config_existed
        /\ conflict_port # 0)
    => cfg = NoConfig

\* the reserved ports of the chosen profile that are listening
BoundReserved == {p \in Range(HOST_PORTS_USED[args.config]) : p \in bound}
\* the first listening port in the declared order of the chosen profile
FirstBound ==
    LET ports == HOST_PORTS_USED[args.config]
        i == CHOOSE k \in 1..Len(ports) :
                /\ ports[k] \in bound
                /\ \A j \in 1..(k - 1) : ports[j] \notin bound
    IN ports[i]

\* C4: in an install run, if some reserved port of the chosen profile is
\* listening, no clone and no compose call is issued at any point of the run
\* and the run ends with a non-zero status; when the run gets to the
\* preflight (no record existed) the port it reports is the first listening
\* one in the declared order.  If no reserved port is listening, the
\* preflight reports nothing, the run goes on to the clone loop with the
\* repositories of the profile, and it gets to the compose calls.
C4_PortPreflight ==
    /\ [](command = "install" /\ BoundReserved # {}
            => /\ Issued("git", "clone") = <<>>
               /\ \A i \in 1..Len(log) : log[i].op # "compose"
               /\ pc \in {"ports", "done"}
               /\ (pc = "done" => exit_code = 1)
               /\ (pc = "done" /\ ~config_existed
                      => conflict_port = FirstBound)
               /\ (pc = "ports" => conflict_port = 0))
    /\ [](command = "install" /\ BoundReserved = {} /\ ~config_existed
            => /\ conflict_port = 0
               /\ pc \in {"ports", "clone", "launch", "done"}
               /\ (pc = "done"
                      => /\ exit_code = 0
                         /\ Len(Issued("compose", "up -d")) = 1))
    /\ [][(pc = "ports" /\ pc' # "ports" /\ BoundReserved = {})
            => /\ pc' = "clone"
               /\ repos_left' = ReposFor(args.config)
               /\ probed' = HOST_PORTS_USED[args.config]]_vars

C4_Witness ==
    /\ pc = "done"
    /\ command = "install"
    /\ ~config_existed
    /\ Cardinality(BoundReserved) = 2
    /\ conflict_port = FirstBound
    /\ conflict_port # HOST_PORTS_USED[args.config][1]
    /\ Len(probed) > 1

\* C5: whenever uninstall runs with a configuration record present, the
\* record is absent afterwards, whatever `down` returned, and stays absent
\* when the process has gone; from there a verb other than install is
\* refused and an install is accepted (it gets to the preflight with a
\* record written).
C5_UninstallRemovesRecord ==
    /\ [][(pc = "idle" /\ cfg # NoConfig /\ command' = "uninstall")
            => (cfg' = NoConfig /\ pc' = "done")]_vars
    /\ [](pc = "done" /\ command = "uninstall" /\ config_existed
            => cfg = NoConfig)
    /\ [][(pc = "done" /\ command = "uninstall")
            => (cfg' = cfg /\ pc' = "idle")]_vars
    /\ [][(pc = "idle" /\ cfg = NoConfig /\ pc' # "idle")
            => \/ command' = "docker_clean"
               \/ command' = "install" /\ pc' = "ports" /\ cfg' # NoConfig
               \/ command' \in OtherVerbs /\ pc' = "done" /\ exit_code' = 1
                    /\ log' = <<>>]_vars

C5_Witness ==
    /\ pc = "done"
    /\ command = "uninstall"
    /\ config_existed
    /\ backend_failed
    /\ Len(Issued("compose", "down")) = 1
    /\ cfg = NoConfig

\* every name of a request list is an updatable service
ValidRequest(services) ==
    \A i \in 1..Len(services) : services[i] \in Range(UPDATE_CHOICES)
\* the entries an update run works through (the blank list is the default)
Requested == IF Len(args.services) = 0 THEN UPDATE_CHOICES ELSE args.services
\* number of pulls issued against a checkout directory in this run
Pulls(dir) ==
    Cardinality({i \in 1..Len(log) :
        log[i].op = "git" /\ log[i].cmd = "pull" /\ log[i].target = dir})
\* the directories this run has queried or pulled
GitTargets == {log[i].target : i \in {k \in 1..Len(log) : log[k].op = "git"}}
\* the service names of the restart calls of this run, in order
RestartedServices ==
    LET r == Issued("compose", "restart")
    IN [i \in 1..Len(r) |-> r[i].svc[1]]
\* the i-th command is a branch query that printed nothing
EmptyQueryAt(i) ==
    log[i].op = "git" /\ log[i].cmd = "symbolic-ref" /\ log[i].tag = ""
NoEmptyQuery == \A i \in 1..Len(log) : ~EmptyQueryAt(i)
IsPrefix(a, b) == Len(a) <= Len(b) /\ SubSeq(b, 1, Len(a)) = a
NoDuplicates(a) == \A i, j \in 1..Len(a) : a[i] = a[j] => i = j

\* C6 as stated: a finished update run with restart enabled and a valid
\* request list has pulled each checkout at most once and has issued exactly
\* one restart per entry of the list, addressed to that entry.
C6_OneRestartPerEntry ==
    (pc = "done" /\ command = "update" /\ ~args.no_restart
        /\ ValidRequest(args.services))
    => /\ \A d \in GitTargets : Pulls(d) <= 1
       /\ RestartedServices = Requested

\* C6 amended: in an update run with restart enabled and a valid request
\* list each checkout is pulled at most once; the restarts issued so far are
\* those of the first entries of the list, in order; and a run in which no
\* branch query printed nothing ends with exactly one restart per entry.
C6_PullOncePerCheckout ==
    (command = "update" /\ ~args.no_restart /\ ValidRequest(args.services))
    => /\ \A d \in GitTargets : Pulls(d) <= 1
       /\ IsPrefix(RestartedServices, Requested)
       /\ (pc = "done" /\ NoEmptyQuery => RestartedServices = Requested)

C6_Witness ==
    /\ pc = "done"
    /\ command = "update"
    /\ ~args.no_restart
    /\ args.services = <<"counterparty", "counterparty-testnet">>
    /\ Pulls("counterparty-lib") = 1
    /\ Pulls("counterparty-cli") = 1
    /\ RestartedServices = <<"counterparty", "counterparty-testnet">>

\* C7: an update run with the blank service list and restart enabled, in
\* which no branch query printed nothing, ends having pulled every checkout
\* of the four repository families exactly once (and nothing else) and
\* having restarted each of the seven updatable services exactly once.
C7_DefaultUpdatePullsAll ==
    (pc = "done" /\ command = "update" /\ args.services = <<>>
        /\ ~args.no_restart /\ NoEmptyQuery)
    => /\ Range(git_has_updated) =
             {"counterparty", "counterblock", "counterwallet", "armory-utxsvr"}
       /\ NoDuplicates(git_has_updated)
       /\ GitTargets = Range(REPOS_FULL)
       /\ \A d \in Range(REPOS_FULL) : Pulls(d) = 1
       /\ Len(RestartedServices) = 7
       /\ Range(RestartedServices) = Range(UPDATE_CHOICES)
       /\ exit_code = 0

C7_Witness ==
    /\ pc = "done"
    /\ command = "update"
    /\ args.services = <<>>
    /\ ~args.no_restart
    /\ NoEmptyQuery
    /\ Len(Issued("git", "pull")) = 5
    /\ Len(RestartedServices) = 7

\* C8: when a branch query of an update run prints nothing, that checkout
\* is not pulled, the run ends there with a non-zero status (the query is
\* the last command of the run, the rest of the queue is left alone), and
\* what the run had issued before stays as it was: the commands of a run are
\* only ever added to.
C8_EmptyBranchAborts ==
    /\ [](command = "update"
            => \A i \in 1..Len(log) :
                  EmptyQueryAt(i)
                  => /\ i = Len(log)
                     /\ Pulls(log[i].target) = 0
                     /\ pc = "done"
                     /\ exit_code = 1)
    /\ [][(pc = "checkout" /\ pc' = "done")
            => /\ log' = Append(log, GitCmd("symbolic-ref", Head(service_dirs),
                                            ""))
               /\ exit_code' = 1
               /\ services_to_update' = services_to_update]_vars
    /\ [][(pc \in {"update", "checkout", "restart"})
            => (Len(log) <= Len(log') /\ SubSeq(log', 1, Len(log)) = log)]_vars

C8_Witness ==
    /\ pc = "done"
    /\ command = "update"
    /\ log # <<>>
    /\ EmptyQueryAt(Len(log))
    /\ Len(Issued("git", "pull")) >= 1
    /\ Len(RestartedServices) >= 1
    /\ services_to_update # <<>>
    /\ exit_code = 1

\* C9: an update run whose request list holds a name that is not an
\* updatable service ends with a non-zero status and has issued no branch
\* query, no pull and no restart.
C9_InvalidNameRejected ==
    (command = "update" /\ ~ValidRequest(args.services))
    => (log = <<>> /\ pc = "done" /\ exit_code = 1)

\* C10: the repository lists and the reserved port lists of the profiles
\* form a chain, full containing counterblock containing base; each
\* repository list is free of duplicates and begins with the list of the
\* smaller profile.
C10_ProfileChain ==
    /\ Range(ReposFor("base")) \subseteq Range(ReposFor("counterblock"))
    /\ Range(ReposFor("counterblock")) \subseteq Range(ReposFor("full"))
    /\ Range(HOST_PORTS_USED.base) \subseteq Range(HOST_PORTS_USED.counterblock)
    /\ Range(HOST_PORTS_USED.counterblock) \subseteq Range(HOST_PORTS_USED.full)
    /\ \A c \in ConfigChoices : NoDuplicates(ReposFor(c))
    /\ IsPrefix(ReposFor("base"), ReposFor("counterblock"))
    /\ IsPrefix(ReposFor("counterblock"), ReposFor("full"))
    /\ (pc = "clone" => \E k \in 0..Len(ReposFor("full")) :
            repos_left = SubSeq(ReposFor(build_config), k + 1,
                                Len(ReposFor(build_config))))

C10_Witness ==
    /\ pc = "clone"
    /\ build_config = "counterblock"
    /\ repos_left = <<"counterblock">>
    /\ Range(REPOS_BASE) \subseteq dirs

\* the repositories this run has issued a clone for, in order
CloneTargets ==
    LET c == Issued("git", "clone") IN [i \in 1..Len(c) |-> c[i].target]
\* position of a repository in the list of a profile
RepoIndex(repo, bc) == CHOOSE i \in 1..Len(ReposFor(bc)) : ReposFor(bc)[i] = repo

\* C11: an install of profile P on branch B with no record and all of P's
\* ports free ends with the record {P, B}.  Each step of the clone loop
\* issues a clone, on branch B, exactly when the directory of the next
\* repository of P does not exist and otherwise issues nothing; so the
\* clones are of repositories of P only, in declaration order, none twice,
\* and every repository of P either has its directory or had a clone
\* issued.  The run ends with status 0 and its commands are the clones, then
\* `pull`, the template copy and `up -d` against P's descriptor.
C11_InstallClonesMissing ==
    /\ [](pc = "done" /\ command = "install" /\ ~config_existed
             /\ BoundReserved = {}
          => LET n == Len(CloneTargets)
                 descriptor == "docker-compose." \o args.config \o ".yml"
             IN /\ cfg = [branch |-> args.branch, config |-> args.config]
                /\ exit_code = 0
                /\ Range(CloneTargets) \subseteq Range(ReposFor(args.config))
                /\ \A i, j \in 1..n :
                      i < j => RepoIndex(CloneTargets[i], args.config)
                                  < RepoIndex(CloneTargets[j], args.config)
                /\ \A r \in Range(ReposFor(args.config)) :
                      r \in dirs \/ r \in Range(CloneTargets)
                /\ Len(log) = n + 3
                /\ \A i \in 1..n :
                      log[i] = GitCmd("clone", CloneTargets[i], args.branch)
                /\ log[n + 1] = ComposeCmd(descriptor, args.branch,
                                           "pull --ignore-pull-failures", <<>>)
                /\ log[n + 2].op = "copy"
                /\ log[n + 3] = ComposeCmd(descriptor, args.branch, "up -d",
                                           <<>>))
    /\ [][pc = "clone"
            => IF Head(repos_left) \in dirs
               THEN log' = log /\ dirs' = dirs
               ELSE /\ log' = Append(log, GitCmd("clone", Head(repos_left),
                                                 args.branch))
                    /\ dirs \subseteq dirs'
                    /\ dirs' \subseteq dirs \cup {Head(repos_left)}]_vars

C11_Witness ==
    /\ pc = "done"
    /\ command = "install"
    /\ ~config_existed
    /\ args.config = "full"
    /\ args.branch = "develop"
    /\ exit_code = 0
    /\ CloneTargets = <<"counterparty-cli", "counterwallet", "armory-utxsvr">>
    /\ cfg = [branch |-> "develop", config |-> "full"]

\* C12: the configuration record changes only in two ways: an install that
\* starts with no record writes {profile, branch} of its arguments, and an
\* uninstall deletes an existing record.  No other step of any verb, in
\* either lifecycle state and whatever the backends return, changes it.
C12_RecordFrame ==
    [][cfg' # cfg
        => \/ /\ cfg = NoConfig
              /\ pc = "idle"
              /\ command' = "install"
              /\ cfg' = [branch |-> args'.branch, config |-> args'.config]
           \/ /\ cfg # NoConfig
              /\ pc = "idle"
              /\ command' = "uninstall"
              /\ cfg' = NoConfig]_vars

C12_Witness ==
    /\ pc = "done"
    /\ command = "rebuild"
    /\ backend_failed
    /\ log # <<>>
    /\ cfg = [branch |-> "develop", config |-> "full"]

\* C13: whenever a docker-compose call or a git clone or pull of a run
\* returned non-zero, the run ends with a non-zero status.
C13_BackendFailurePropagates ==
    (pc = "done" /\ backend_failed
        /\ command \in {"install", "uninstall", "start", "stop", "restart",
                        "reparse", "update", "rebuild"})
    => (exit_code # 0 /\ exit_code # -1)

\* C14: a finished exec or shell run of an installed node has created a
\* one-off container with a shell entry point (docker-compose run) exactly
\* when attaching to the running container failed.
C14_AttachFallback ==
    (pc = "done" /\ command \in {"exec", "shell"} /\ config_existed)
    => (backend_failed
          <=> Len(Issued("compose", "run --no-deps --entrypoint bash")) = 1)

\* the repository families of a request list, each at its first request
RECURSIVE FirstFamilies(_)
FirstFamilies(reqs) ==
    IF reqs = <<>> THEN <<>>
    ELSE LET front == FirstFamilies(SubSeq(reqs, 1, Len(reqs) - 1))
             family == ServiceBase(reqs[Len(reqs)])
         IN IF family \in Range(front) THEN front ELSE Append(front, family)
\* the checkouts of a list of families, in order
RECURSIVE CheckoutsOf(_)
CheckoutsOf(families) ==
    IF families = <<>> THEN <<>>
    ELSE ServiceDirs(Head(families)) \o CheckoutsOf(Tail(families))
\* the family a checkout directory belongs to
FamilyOfDir(dir) ==
    IF dir \in {"counterparty-lib", "counterparty-cli"} THEN "counterparty"
    ELSE dir
\* the checkouts pulled by this run, in order
PullTargets ==
    LET g == Issued("git", "pull") IN [i \in 1..Len(g) |-> g[i].target]
IsRestart(i) == log[i].op = "compose" /\ log[i].cmd = "restart"
IsGit(i) == log[i].op = "git"
\* how many restarts the run has issued up to its i-th command
RestartsUpTo(i) == Cardinality({j \in 1..i : IsRestart(j)})

\* C15: within an update run the checkouts are pulled in the order of the
\* first request of their family, each pull right after the branch query of
\* the same checkout; the k-th restart is addressed to the k-th entry of the
\* list and comes after a pull of every checkout of its family; and the git
\* commands before it are those of the families of the first k entries, the
\* git commands after it those of other families.
C15_SequentialInRequestOrder ==
    command = "update"
    => /\ IsPrefix(PullTargets, CheckoutsOf(FirstFamilies(Requested)))
       /\ \A j \in 1..Len(log) :
             (IsGit(j) /\ log[j].cmd = "pull")
             => /\ j > 1
                /\ log[j - 1] = GitCmd("symbolic-ref", log[j].target,
                                       log[j].tag)
       /\ \A i \in 1..Len(log) :
             IsRestart(i)
             => LET k == RestartsUpTo(i)
                    earlier == {ServiceBase(Requested[m]) : m \in 1..k}
                IN /\ k <= Len(Requested)
                   /\ log[i].svc = <<Requested[k]>>
                   /\ \A d \in Range(ServiceDirs(ServiceBase(Requested[k]))) :
                         \E j \in 1..(i - 1) :
                            IsGit(j) /\ log[j].cmd = "pull"
                               /\ log[j].target = d
                   /\ \A j \in 1..Len(log) :
                         IsGit(j)
                         => (j < i <=> FamilyOfDir(log[j].target) \in earlier)

C15_Witness ==
    /\ pc = "done"
    /\ command = "update"
    /\ ~args.no_restart
    /\ args.services = <<"counterblock-testnet", "counterparty">>
    /\ exit_code = 0
    /\ PullTargets = <<"counterblock", "counterparty-lib", "counterparty-cli">>
    /\ RestartedServices = <<"counterblock-testnet", "counterparty">>
    /\ IsRestart(3)

\* C16 as stated: at the end of any update run counterparty-lib and
\* counterparty-cli were both pulled in the run or neither was.
C16_FamilyMovesTogether ==
    (pc = "done" /\ command = "update")
    => (Pulls("counterparty-lib") = 0 <=> Pulls("counterparty-cli") = 0)

\* C16 amended: at the end of an update run counterparty-lib and
\* counterparty-cli were both pulled or neither was, unless the run was
\* aborted by the branch query of counterparty-cli printing nothing, in
\* which case counterparty-lib alone was pulled; counterparty-cli is never
\* pulled without counterparty-lib pulled before it.
C16_TogetherUnlessAbortedBetween ==
    command = "update"
    => /\ \A j \in 1..Len(log) :
             (IsGit(j) /\ log[j].cmd = "pull"
                 /\ log[j].target = "counterparty-cli")
             => \E i \in 1..(j - 1) :
                   IsGit(i) /\ log[i].cmd = "pull"
                      /\ log[i].target = "counterparty-lib"
       /\ pc = "done"
          => \/ Pulls("counterparty-lib") = Pulls("counterparty-cli")
             \/ /\ Pulls("counterparty-lib") = 1
                /\ Pulls("counterparty-cli") = 0
                /\ exit_code = 1
                /\ log[Len(log)] = GitCmd("symbolic-ref", "counterparty-cli", "")

C16_Witness ==
    /\ pc = "done"
    /\ command = "update"
    /\ exit_code = 1
    /\ Pulls("counterparty-lib") = 1
    /\ Pulls("counterparty-cli") = 1
    /\ args.services = <<"counterparty-testnet", "counterblock">>

\* the git commands of this run, in order
GitLog == SelectSeq(log, LAMBDA c : c.op = "git")
\* what the branch query of a checkout printed in this run
QueriedBranch(dir) ==
    LET q == SelectSeq(log, LAMBDA c : c.op = "git" /\ c.cmd = "symbolic-ref"
                                          /\ c.target = dir)
    IN q[1].tag
\* the git commands an update run issues for a list of checkouts, given
\* what each branch query prints: query and pull for each checkout in turn,
\* stopping at the first query that prints nothing
RECURSIVE GitPlan(_)
GitPlan(checkouts) ==
    IF checkouts = <<>> THEN <<>>
    ELSE LET d == Head(checkouts) IN
         IF QueriedBranch(d) = ""
         THEN <<GitCmd("symbolic-ref", d, "")>>
         ELSE <<GitCmd("symbolic-ref", d, QueriedBranch(d)),
                GitCmd("pull", d, QueriedBranch(d))>>
              \o GitPlan(Tail(checkouts))
\* the checkouts of the request that this run has queried
QueriedCheckouts ==
    SelectSeq(CheckoutsOf(FirstFamilies(Requested)),
              LAMBDA d : \E i \in 1..Len(log) :
                 IsGit(i) /\ log[i].cmd = "symbolic-ref" /\ log[i].target = d)

\* C17: an update run with --no-restart issues no restart (its commands are
\* git commands only), and the branch queries and pulls of an update run
\* are a function of the request list and of what the queries print, the
\* same with and without --no-restart: at the end of the run they are the
\* query and pull of each checkout of the requested families in turn, up to
\* the first query that prints nothing.
C17_NoRestartSameGit ==
    command = "update"
    => /\ args.no_restart => (Issued("compose", "restart") = <<>>
                                 /\ GitLog = log)
       /\ GitLog = GitPlan(QueriedCheckouts)
       /\ (pc = "done" /\ ~InvalidRequest(args.services))
          => GitLog = GitPlan(CheckoutsOf(FirstFamilies(Requested)))

C17_Witness ==
    /\ pc = "done"
    /\ command = "update"
    /\ args.no_restart
    /\ args.services = <<"counterparty", "counterblock-testnet">>
    /\ exit_code = 0
    /\ Len(log) = 6
    /\ PullTargets = <<"counterparty-lib", "counterparty-cli", "counterblock">>

\* C18: every checkout that an update run with a valid request list
\* queries or pulls is a repository of the installed profile.
C18_UpdateWithinProfile ==
    (command = "update" /\ ValidRequest(args.services))
    => GitTargets \subseteq Range(ReposFor(cfg.config))

\* C19: every update run comes to its end.  Each pass through the top of
\* the loop takes exactly the head off the queue and no other step touches
\* the queue; the run ends either with status 0, the queue empty and every
\* family of the request worked through once (and, with restart enabled, one
\* restart per entry), or with status 1 on an invalid name (nothing issued)
\* or on a branch query that printed nothing.
C19_UpdateTerminates ==
    /\ (pc \in {"update", "checkout", "restart"}) ~> (pc = "done")
    /\ [][pc = "update"
            => /\ service' = Head(services_to_update)
               /\ services_to_update' = Tail(services_to_update)]_vars
    /\ [][(pc \in {"checkout", "restart"})
            => services_to_update' = services_to_update]_vars
    /\ [](pc = "done" /\ command = "update"
            => \/ /\ exit_code = 0
                  /\ services_to_update = <<>>
                  /\ git_has_updated = FirstFamilies(Requested)
                  /\ ~args.no_restart => RestartedServices = Requested
               \/ /\ exit_code = 1
                  /\ InvalidRequest(args.services)
                  /\ log = <<>>
               \/ /\ exit_code = 1
                  /\ log # <<>>
                  /\ EmptyQueryAt(Len(log)))

C19_Witness ==
    /\ pc = "done"
    /\ command = "update"
    /\ exit_code = 0
    /\ services_to_update = <<>>
    /\ args.services = <<>>
    /\ Len(git_has_updated) = 4

\* the commands a step adds to the log of the run
NewCommands == {log'[i] : i \in (Len(log) + 1)..Len(log')}

\* C20: the two assertions never fail.  A run that gets to the load step
\* (any verb but docker_clean, and with no record only install) finds the
\* record there and takes profile and a non-empty release tag from it; every
\* docker-compose command is issued while a record exists, with the release
\* tag equal to the branch of the record and against the descriptor of the
\* profile of the record; and a run that ends with status 1 does so at one
\* of the exits of the script, not at an assertion.
C20_AssertionsHold ==
    /\ [][(pc = "idle" /\ pc' # "idle" /\ command' # "docker_clean"
              /\ (cfg # NoConfig \/ command' = "install"))
            => LET file == IF command' = "install" THEN cfg' ELSE cfg
               IN /\ file # NoConfig
                  /\ build_config' = file.config
                  /\ release_tag' = file.branch
                  /\ release_tag' # ""]_vars
    /\ [][\A c \in NewCommands :
             c.op = "compose"
             => /\ cfg # NoConfig
                /\ c.tag # ""
                /\ c.tag = cfg.branch
                /\ c.target = "docker-compose." \o cfg.config \o ".yml"]_vars
    /\ [](pc = "done" /\ exit_code # 0
            => \/ command = "docker_clean"
               \/ command # "install" /\ ~config_existed
               \/ command = "install" /\ config_existed
               \/ command = "install" /\ conflict_port # 0
               \/ command = "update" /\ InvalidRequest(args.services)
               \/ command = "update" /\ log # <<>> /\ EmptyQueryAt(Len(log)))

C20_Witness ==
    /\ pc = "done"
    /\ command = "uninstall"
    /\ cfg = NoConfig
    /\ exit_code = 0
    /\ log = <<ComposeCmd("docker-compose.counterblock.yml", "develop", "down",
                          <<>>)>>

====
